---- MODULE Spec2Model ----
(***************************************************************************)
(* Model of the emissary health-check shim:                                *)
(*   pkg/acp/envoy.go                   EnvoyWatcher                        *)
(*   cmd/entrypoint/healthcheck_server.go  health handlers, reverse proxy,  *)
(*                                      listener / serve / shutdown         *)
(*                                                                         *)
(* Five specifications share the module:                                  *)
(*   Spec          goroutines calling the EnvoyWatcher directly            *)
(*   FrontDoorSpec goroutines of the HTTP server serving requests          *)
(*   ProxySpec     one request through the ServeMux and the reverse proxy  *)
(*   LifecycleSpec healthCheckHandler's listen / serve / shutdown sequence *)
(*   ShutdownSpec  health requests with the default fetcher while ctx is   *)
(*                 cancelled                                               *)
(***************************************************************************)
EXTENDS Integers, FiniteSets, Sequences, TLC

\* ------------------------------------------------------------------ bounds
\* Number of goroutines that call the watcher / serve health requests.
NumProcs == 2

Procs == 1..NumProcs

\* ------------------------------------------------------------ watcher state
VARIABLES
    LastSucceeded,  \* EnvoyWatcher.LastSucceeded
    mutex,          \* EnvoyWatcher.mutex: 0 when free, else the holder
    fetchStats,     \* EnvoyWatcher.fetchStats: which fetcher was installed
    pc,             \* position of each goroutine
    op,             \* the operation each goroutine is running
    asked,          \* queries the goroutine has completed in this operation
    statsResponse,  \* FetchEnvoyStats: what fetchStats returned to the call
    succeeded,      \* FetchEnvoyStats: the local variable succeeded
    ok,             \* value returned to the goroutine by IsAlive / IsReady
    status          \* HTTP status written by a health handler (0: none yet)

\* History variables (observations only; no action reads them in a guard).
VARIABLES
    committed,      \* some FetchEnvoyStats has assigned LastSucceeded
    lastCommit,     \* value assigned by the most recent such assignment
    lastReturned,   \* outcome of the FetchEnvoyStats call that returned last
                    \* (lastReturned, batch, batchStart and lastFetched
                    \* observe the calls of direct callers, those of Spec)
    lastWriter,     \* goroutine whose assignment was the most recent one, while
                    \* it is still in the same operation; else 0
    prevValue,      \* LastSucceeded just before the most recent assignment
    batch,          \* outcomes of the calls of the current overlapping group
    batchStart,     \* LastSucceeded when that group's first call began
    fetches,        \* fetches[p]: fetcher invocations of p's current operation
    stores,         \* stores[p]: assignments of LastSucceeded by p's operation
    lastFetched,    \* outcome of the fetch that returned most recently
    fetchedAfterCancel, \* fetchedAfterCancel[p]: ctx was already cancelled
                    \* when the fetch of p's operation returned
    lateSuccess     \* a call has assigned true after ctx was cancelled

watcherVars == <<LastSucceeded, mutex, fetchStats, pc, op, asked, statsResponse,
                 succeeded, ok, status>>
historyVars == <<committed, lastCommit, lastReturned, lastWriter, prevValue,
                 batch, batchStart, fetches, stores, lastFetched,
                 fetchedAfterCancel, lateSuccess>>

\* -------------------------------------------------------------- proxy state
VARIABLES
    ppc,            \* position of the request in the front door
    req,            \* the inbound request
    outreq,         \* the request as the diagnostics origin receives it
    originResp,     \* the diagnostics origin's response
    clientResp      \* the response the client receives

proxyVars == <<ppc, req, outreq, originResp, clientResp>>

\* ---------------------------------------------------------- lifecycle state
VARIABLES
    lc,             \* position of healthCheckHandler (the lifecycle controller)
    srv,            \* position of the goroutine of lines 113-115
    proc,           \* the process: running, or how it ended
    ctxDone,        \* ctx has been cancelled (the shutdown signal)
    listener,       \* the TCP listener of line 97
    rstate,         \* rstate[r]: state of request r
    remaining,      \* remaining[r]: seconds until r's handler finishes
    atShutdown,     \* atShutdown[r]: remaining[r] when Shutdown was called, -1
                    \* when r was not in flight then
    elapsed,        \* seconds since Shutdown was called
    rkind           \* rkind[r]: "health" for a check_alive / check_ready
                    \* request, "diag" for a proxied one, "none" before r

lifecycleVars == <<lc, srv, proc, ctxDone, listener, rstate, remaining,
                   atShutdown, elapsed, rkind>>

otherVars == <<proxyVars, lifecycleVars>>

vars == <<watcherVars, historyVars, proxyVars, lifecycleVars>>

\* ----------------------------------------------------------------- fetcher
\* EnvoyFetcherResponse / error pair returned by an envoyFetcher.  On an
\* error the response pointer is nil, written here as StatusCode 0.
ErrResult == [err |-> TRUE, StatusCode |-> 0]

StatusCodes == {200, 204}

OkResult(code) == [err |-> FALSE, StatusCode |-> code]

\* The fetchers a watcher may be constructed with (SetFetchStats): one that
\* always answers 200, one that always errors, and one whose result varies
\* from call to call as the default fetcher's does.
Fetchers == {"always200", "alwaysError", "varying"}

FetcherResults(f) ==
    CASE f = "always200"   -> {OkResult(200)}
      [] f = "alwaysError" -> {ErrResult}
      [] OTHER             -> {ErrResult} \cup {OkResult(c) : c \in StatusCodes}

\* The fetcher NewEnvoyWatcher installs (line 54).
DefaultFetcher == "default"

defaultFetcher_IgnoresCancel(cancelled) ==
    {ErrResult} \cup {OkResult(c) : c \in StatusCodes}

\* defaultFetcher (lines 60-100) derives its 2 s context from the ctx it is
\* given (line 64) and issues the request and reads the body under it: once
\* ctx is cancelled client.Do (line 79) or io.ReadAll (line 94) returns an
\* error.  Before that it returns an error or whatever status Envoy gave.
defaultFetcher(cancelled) ==
    IF cancelled THEN {ErrResult}
                 ELSE {ErrResult} \cup {OkResult(c) : c \in StatusCodes}

\* What the call w.fetchStats(ctx) of line 114 may return now; the handlers
\* pass the server's ctx (healthcheck_server.go lines 55, 59).
FetchOutcomes ==
    IF fetchStats = DefaultFetcher THEN defaultFetcher(ctxDone)
                                   ELSE FetcherResults(fetchStats)

\* FetchEnvoyStats, lines 111-125: succeeded is true only for err == nil
\* and StatusCode == 200.
Succeeded_Any2xx(r) == (~r.err) /\ (r.StatusCode \div 100 = 2)

Succeeded(r) == (~r.err) /\ (r.StatusCode = 200)

\* FetchEnvoyStats, line 129: w.LastSucceeded = succeeded.
StoreLastSucceeded_OnlySuccess(cur, new) == IF new THEN TRUE ELSE cur

StoreLastSucceeded_Conjoined(cur, new) == cur /\ new

StoreLastSucceeded(cur, new) == new

\* NewEnvoyWatcher: &EnvoyWatcher{} is the zero value.
NewEnvoyWatcher_StartsHealthy == [LastSucceeded |-> TRUE, mutex |-> 0]

NewEnvoyWatcher == [LastSucceeded |-> FALSE, mutex |-> 0]

\* IsAlive returns LastSucceeded (read under the mutex); IsReady returns
\* whatever IsAlive returns.
EnvoyWatcher_IsAlive == LastSucceeded

EnvoyWatcher_IsReady == EnvoyWatcher_IsAlive

\* acp.AmbassadorWatcher, as the handlers use it: its FetchEnvoyStats,
\* IsAlive and IsReady are those of the EnvoyWatcher it wraps.
AmbassadorWatcher_IsAlive == EnvoyWatcher_IsAlive

AmbassadorWatcher_IsReady == EnvoyWatcher_IsReady

\* handleCheckAlive / handleCheckReady: 200 when ok, else 503.
handleCheckAlive_Status(isOk) == IF isOk THEN 200 ELSE 503

handleCheckReady_Status_Swapped(isOk) == IF isOk THEN 503 ELSE 200

handleCheckReady_Status(isOk) == IF isOk THEN 200 ELSE 503

\* ------------------------------------------------------------------ routing
CheckAlivePath == "/ambassador/v0/check_alive"
CheckReadyPath == "/ambassador/v0/check_ready"

\* Paths a client may ask for besides the two health paths.
OtherPaths == {"/", "/ambassador/v0/diag/"}

\* The ServeMux of healthCheckHandler: two exact patterns and the catch-all.
ServeMux(path) ==
    CASE path = CheckAlivePath -> "handleCheckAlive"
      [] path = CheckReadyPath -> "handleCheckReady"
      [] OTHER                 -> "reverseProxy"

\* --------------------------------------------------------------- operations
\* What a goroutine may be doing:
\*   "IsAlive", "IsReady"  one direct call of the query
\*   "probe"               a direct caller: FetchEnvoyStats(), then IsAlive(),
\*                         then IsReady()
\*   "check_alive", "check_ready"  a request served by the health handler
\*   "other"               a request served by the reverse proxy
\* A direct caller of FetchEnvoyStats, as opposed to a health handler.
Direct(o) == o = "probe"

ProbePcs == {"fetching", "lock_w", "write", "unlock_w", "ret_w"}

InFlight(p) == pc[p] \in ProbePcs

NoProbeInFlight == \A p \in Procs : ~InFlight(p)

\* The query a goroutine at a query position is making.
QueryOf(p) ==
    CASE op[p] = "IsAlive"     -> "IsAlive"
      [] op[p] = "IsReady"     -> "IsReady"
      [] op[p] = "check_alive" -> "AmbassadorWatcher.IsAlive"
      [] op[p] = "check_ready" -> "AmbassadorWatcher.IsReady"
      [] OTHER                 -> IF asked[p] = 0 THEN "IsAlive" ELSE "IsReady"

InitWatcher ==
    /\ LastSucceeded = NewEnvoyWatcher.LastSucceeded
    /\ mutex = NewEnvoyWatcher.mutex
    /\ pc = [p \in Procs |-> "idle"]
    /\ op = [p \in Procs |-> "none"]
    /\ asked = [p \in Procs |-> 0]
    /\ statsResponse = [p \in Procs |-> ErrResult]
    /\ succeeded = [p \in Procs |-> FALSE]
    /\ ok = [p \in Procs |-> FALSE]
    /\ status = [p \in Procs |-> 0]
    /\ committed = FALSE
    /\ lastCommit = FALSE
    /\ lastReturned = FALSE
    /\ lastWriter = 0
    /\ prevValue = FALSE
    /\ batch = {}
    /\ batchStart = FALSE
    /\ fetches = [p \in Procs |-> 0]
    /\ stores = [p \in Procs |-> 0]
    /\ lastFetched = FALSE
    /\ fetchedAfterCancel = [p \in Procs |-> FALSE]
    /\ lateSuccess = FALSE

\* A goroutine enters FetchEnvoyStats (lines 110-114): succeeded := false and
\* the fetcher is invoked.  LastSucceeded and the mutex are not touched.
FetchEnvoyStats_Enter_ClearsState(p, o) ==
    /\ pc[p] = "idle"
    /\ op' = [op EXCEPT ![p] = o]
    /\ pc' = [pc EXCEPT ![p] = "fetching"]
    /\ succeeded' = [succeeded EXCEPT ![p] = FALSE]
    /\ batch' = IF Direct(o) /\ NoProbeInFlight THEN {} ELSE batch
    /\ batchStart' = IF Direct(o) /\ NoProbeInFlight THEN LastSucceeded
                                                   ELSE batchStart
    /\ fetches' = [fetches EXCEPT ![p] = @ + 1]
    /\ LastSucceeded' = FALSE
    /\ UNCHANGED <<mutex, fetchStats, asked, statsResponse, ok, status>>
    /\ UNCHANGED <<committed, lastCommit, lastReturned, lastWriter, prevValue,
                   stores, lastFetched, fetchedAfterCancel, lateSuccess>>
    /\ UNCHANGED otherVars

FetchEnvoyStats_Enter(p, o) ==
    /\ pc[p] = "idle"
    /\ op' = [op EXCEPT ![p] = o]
    /\ pc' = [pc EXCEPT ![p] = "fetching"]
    /\ succeeded' = [succeeded EXCEPT ![p] = FALSE]
    /\ batch' = IF Direct(o) /\ NoProbeInFlight THEN {} ELSE batch
    /\ batchStart' = IF Direct(o) /\ NoProbeInFlight THEN LastSucceeded
                                                   ELSE batchStart
    /\ fetches' = [fetches EXCEPT ![p] = @ + 1]
    /\ UNCHANGED <<LastSucceeded, mutex, fetchStats, asked, statsResponse, ok,
                   status>>
    /\ UNCHANGED <<committed, lastCommit, lastReturned, lastWriter, prevValue,
                   stores, lastFetched, fetchedAfterCancel, lateSuccess>>
    /\ UNCHANGED otherVars

\* A direct caller of the watcher: w.FetchEnvoyStats(ctx), then the queries.
Call_FetchEnvoyStats(p) == FetchEnvoyStats_Enter(p, "probe")

\* A request routed to handleCheckAlive: line 18 calls FetchEnvoyStats
\* before anything else.
handleCheckAlive_Start_SkipsProbe(p) ==
    /\ pc[p] = "idle"
    /\ op' = [op EXCEPT ![p] = "check_alive"]
    /\ pc' = [pc EXCEPT ![p] = "lock_r"]
    /\ UNCHANGED <<LastSucceeded, mutex, fetchStats, asked, statsResponse,
                   succeeded, ok, status>>
    /\ UNCHANGED historyVars
    /\ UNCHANGED otherVars

handleCheckAlive_Start(p) ==
    /\ ServeMux(CheckAlivePath) = "handleCheckAlive"
    /\ FetchEnvoyStats_Enter(p, "check_alive")

\* A request routed to handleCheckReady: line 36 calls FetchEnvoyStats.
handleCheckReady_Start_Cached(p) ==
    IF committed
    THEN /\ pc[p] = "idle"
         /\ op' = [op EXCEPT ![p] = "check_ready"]
         /\ pc' = [pc EXCEPT ![p] = "lock_r"]
         /\ UNCHANGED <<LastSucceeded, mutex, fetchStats, asked, statsResponse,
                        succeeded, ok, status>>
         /\ UNCHANGED historyVars
         /\ UNCHANGED otherVars
    ELSE FetchEnvoyStats_Enter(p, "check_ready")

handleCheckReady_Start(p) ==
    /\ ServeMux(CheckReadyPath) = "handleCheckReady"
    /\ FetchEnvoyStats_Enter(p, "check_ready")

\* fetchStats returns (line 114) and succeeded is computed (lines 117-125).
FetchEnvoyStats_FetchReturns_Aborts(p) ==
    /\ pc[p] = "fetching"
    /\ \E r \in FetchOutcomes :
         /\ statsResponse' = [statsResponse EXCEPT ![p] = r]
         /\ succeeded' = [succeeded EXCEPT ![p] = Succeeded(r)]
         /\ batch' = IF Direct(op[p]) THEN batch \cup {Succeeded(r)}
                                      ELSE batch
         /\ lastFetched' = IF Direct(op[p]) THEN Succeeded(r) ELSE lastFetched
         /\ pc' = [pc EXCEPT ![p] = IF r.err THEN "aborted" ELSE "lock_w"]
    /\ fetchedAfterCancel' = [fetchedAfterCancel EXCEPT ![p] = ctxDone]
    /\ UNCHANGED <<LastSucceeded, mutex, fetchStats, op, asked, ok, status>>
    /\ UNCHANGED <<committed, lastCommit, lastReturned, lastWriter, prevValue,
                   batchStart, fetches, stores, lateSuccess>>
    /\ UNCHANGED otherVars

FetchEnvoyStats_FetchReturns(p) ==
    /\ pc[p] = "fetching"
    /\ \E r \in FetchOutcomes :
         /\ statsResponse' = [statsResponse EXCEPT ![p] = r]
         /\ succeeded' = [succeeded EXCEPT ![p] = Succeeded(r)]
         /\ batch' = IF Direct(op[p]) THEN batch \cup {Succeeded(r)}
                                      ELSE batch
         /\ lastFetched' = IF Direct(op[p]) THEN Succeeded(r) ELSE lastFetched
    /\ fetchedAfterCancel' = [fetchedAfterCancel EXCEPT ![p] = ctxDone]
    /\ pc' = [pc EXCEPT ![p] = "lock_w"]
    /\ UNCHANGED <<LastSucceeded, mutex, fetchStats, op, asked, ok, status>>
    /\ UNCHANGED <<committed, lastCommit, lastReturned, lastWriter, prevValue,
                   batchStart, fetches, stores, lateSuccess>>
    /\ UNCHANGED otherVars

\* w.mutex.Lock() (line 127).
FetchEnvoyStats_Lock(p) ==
    /\ pc[p] = "lock_w"
    /\ mutex = 0
    /\ mutex' = p
    /\ pc' = [pc EXCEPT ![p] = "write"]
    /\ UNCHANGED <<LastSucceeded, fetchStats, op, asked, statsResponse,
                   succeeded, ok, status>>
    /\ UNCHANGED historyVars
    /\ UNCHANGED otherVars

\* w.LastSucceeded = succeeded (line 129).
FetchEnvoyStats_Store(p) ==
    /\ pc[p] = "write"
    /\ mutex = p
    /\ LastSucceeded' = StoreLastSucceeded(LastSucceeded, succeeded[p])
    /\ pc' = [pc EXCEPT ![p] = "unlock_w"]
    /\ committed' = TRUE
    /\ lastCommit' = succeeded[p]
    /\ lastWriter' = p
    /\ prevValue' = LastSucceeded
    /\ stores' = [stores EXCEPT ![p] = @ + 1]
    /\ lateSuccess' = (lateSuccess \/ (ctxDone /\ succeeded[p]))
    /\ UNCHANGED <<mutex, fetchStats, op, asked, statsResponse, succeeded, ok,
                   status>>
    /\ UNCHANGED <<lastReturned, batch, batchStart, fetches, lastFetched,
                   fetchedAfterCancel>>
    /\ UNCHANGED otherVars

\* The deferred w.mutex.Unlock() (line 128).
FetchEnvoyStats_Unlock(p) ==
    /\ pc[p] = "unlock_w"
    /\ mutex = p
    /\ mutex' = 0
    /\ pc' = [pc EXCEPT ![p] = "ret_w"]
    /\ UNCHANGED <<LastSucceeded, fetchStats, op, asked, statsResponse,
                   succeeded, ok, status>>
    /\ UNCHANGED historyVars
    /\ UNCHANGED otherVars

\* FetchEnvoyStats returns to its caller (line 130), who goes on to call
\* IsAlive / IsReady (handlers: lines 21, 38).
FetchEnvoyStats_Return(p) ==
    /\ pc[p] = "ret_w"
    /\ pc' = [pc EXCEPT ![p] = "lock_r"]
    /\ lastReturned' = IF Direct(op[p]) THEN succeeded[p] ELSE lastReturned
    /\ UNCHANGED <<LastSucceeded, mutex, fetchStats, op, asked, statsResponse,
                   succeeded, ok, status>>
    /\ UNCHANGED <<committed, lastCommit, lastWriter, prevValue, batch,
                   batchStart, fetches, stores, lastFetched,
                   fetchedAfterCancel, lateSuccess>>
    /\ UNCHANGED otherVars

\* A direct call of EnvoyWatcher.IsAlive or EnvoyWatcher.IsReady.
Call_Query(p, o) ==
    /\ pc[p] = "idle"
    /\ op' = [op EXCEPT ![p] = o]
    /\ pc' = [pc EXCEPT ![p] = "lock_r"]
    /\ UNCHANGED <<LastSucceeded, mutex, fetchStats, asked, statsResponse,
                   succeeded, ok, status>>
    /\ UNCHANGED historyVars
    /\ UNCHANGED otherVars

Call_IsAlive(p) == Call_Query(p, "IsAlive")

Call_IsReady(p) == Call_Query(p, "IsReady")

\* w.mutex.Lock() in IsAlive (line 134); IsReady gets there through its
\* call of w.IsAlive() (line 145).
IsAlive_Lock_NoWait(p) ==
    /\ pc[p] = "lock_r"
    /\ mutex' = p
    /\ pc' = [pc EXCEPT ![p] = "read"]
    /\ UNCHANGED <<LastSucceeded, fetchStats, op, asked, statsResponse,
                   succeeded, ok, status>>
    /\ UNCHANGED historyVars
    /\ UNCHANGED otherVars

IsAlive_Lock(p) ==
    /\ pc[p] = "lock_r"
    /\ mutex = 0
    /\ mutex' = p
    /\ pc' = [pc EXCEPT ![p] = "read"]
    /\ UNCHANGED <<LastSucceeded, fetchStats, op, asked, statsResponse,
                   succeeded, ok, status>>
    /\ UNCHANGED historyVars
    /\ UNCHANGED otherVars

\* The value a query hands back.
QueryValue(q) ==
    CASE q = "IsAlive"                   -> EnvoyWatcher_IsAlive
      [] q = "IsReady"                   -> EnvoyWatcher_IsReady
      [] q = "AmbassadorWatcher.IsAlive" -> AmbassadorWatcher_IsAlive
      [] OTHER                           -> AmbassadorWatcher_IsReady

\* return w.LastSucceeded (line 139): the result is evaluated with the
\* mutex held.
IsAlive_Read_Stale(p) ==
    /\ pc[p] = "read"
    /\ mutex = p
    /\ ok' = [ok EXCEPT ![p] = prevValue]
    /\ pc' = [pc EXCEPT ![p] = "unlock_r"]
    /\ UNCHANGED <<LastSucceeded, mutex, fetchStats, op, asked, statsResponse,
                   succeeded, status>>
    /\ UNCHANGED historyVars
    /\ UNCHANGED otherVars

IsAlive_Read(p) ==
    /\ pc[p] = "read"
    /\ mutex = p
    /\ ok' = [ok EXCEPT ![p] = QueryValue(QueryOf(p))]
    /\ pc' = [pc EXCEPT ![p] = "unlock_r"]
    /\ UNCHANGED <<LastSucceeded, mutex, fetchStats, op, asked, statsResponse,
                   succeeded, status>>
    /\ UNCHANGED historyVars
    /\ UNCHANGED otherVars

\* The deferred w.mutex.Unlock() (line 135).
IsAlive_Unlock(p) ==
    /\ pc[p] = "unlock_r"
    /\ mutex = p
    /\ mutex' = 0
    /\ pc' = [pc EXCEPT ![p] = "ret_r"]
    /\ UNCHANGED <<LastSucceeded, fetchStats, op, asked, statsResponse,
                   succeeded, ok, status>>
    /\ UNCHANGED historyVars
    /\ UNCHANGED otherVars

\* The goroutine's operation is over: its locals are gone.
Forget(p) ==
    /\ pc' = [pc EXCEPT ![p] = "idle"]
    /\ op' = [op EXCEPT ![p] = "none"]
    /\ asked' = [asked EXCEPT ![p] = 0]
    /\ statsResponse' = [statsResponse EXCEPT ![p] = ErrResult]
    /\ succeeded' = [succeeded EXCEPT ![p] = FALSE]
    /\ ok' = [ok EXCEPT ![p] = FALSE]
    /\ status' = [status EXCEPT ![p] = 0]
    /\ lastWriter' = IF lastWriter = p THEN 0 ELSE lastWriter
    /\ fetches' = [fetches EXCEPT ![p] = 0]
    /\ stores' = [stores EXCEPT ![p] = 0]
    /\ fetchedAfterCancel' = [fetchedAfterCancel EXCEPT ![p] = FALSE]
    /\ UNCHANGED <<LastSucceeded, mutex, fetchStats>>
    /\ UNCHANGED <<committed, lastCommit, lastReturned, prevValue, batch,
                   batchStart, lastFetched, lateSuccess>>
    /\ UNCHANGED otherVars

\* IsAlive returns to the direct caller that probed first; it calls IsReady
\* next.
IsAlive_ReturnThenIsReady(p) ==
    /\ pc[p] = "ret_r"
    /\ op[p] = "probe" /\ asked[p] = 0
    /\ asked' = [asked EXCEPT ![p] = 1]
    /\ ok' = [ok EXCEPT ![p] = FALSE]
    /\ pc' = [pc EXCEPT ![p] = "lock_r"]
    /\ UNCHANGED <<LastSucceeded, mutex, fetchStats, op, statsResponse,
                   succeeded, status>>
    /\ UNCHANGED historyVars
    /\ UNCHANGED otherVars

\* The last query of a direct caller returns.
Query_Return(p) ==
    /\ pc[p] = "ret_r"
    /\ \/ op[p] \in {"IsAlive", "IsReady"}
       \/ op[p] = "probe" /\ asked[p] = 1
    /\ Forget(p)

\* handleCheckAlive, lines 21-27: the response is written from ok.
handleCheckAlive_Respond(p) ==
    /\ pc[p] = "ret_r"
    /\ op[p] = "check_alive"
    /\ status' = [status EXCEPT ![p] = handleCheckAlive_Status(ok[p])]
    /\ pc' = [pc EXCEPT ![p] = "responded"]
    /\ UNCHANGED <<LastSucceeded, mutex, fetchStats, op, asked, statsResponse,
                   succeeded, ok>>
    /\ UNCHANGED historyVars
    /\ UNCHANGED otherVars

\* handleCheckReady, lines 38-44.
handleCheckReady_Respond(p) ==
    /\ pc[p] = "ret_r"
    /\ op[p] = "check_ready"
    /\ status' = [status EXCEPT ![p] = handleCheckReady_Status(ok[p])]
    /\ pc' = [pc EXCEPT ![p] = "responded"]
    /\ UNCHANGED <<LastSucceeded, mutex, fetchStats, op, asked, statsResponse,
                   succeeded, ok>>
    /\ UNCHANGED historyVars
    /\ UNCHANGED otherVars

\* The health handler returns.
Handler_Return(p) ==
    /\ pc[p] = "responded"
    /\ Forget(p)

\* A request on any other path goes to reverseProxy.ServeHTTP (line 85),
\* which does not use the watcher.
reverseProxy_Start_Probes(p) == FetchEnvoyStats_Enter(p, "other")

reverseProxy_Start(p) ==
    /\ pc[p] = "idle"
    /\ \E path \in OtherPaths : ServeMux(path) = "reverseProxy"
    /\ op' = [op EXCEPT ![p] = "other"]
    /\ pc' = [pc EXCEPT ![p] = "proxying"]
    /\ UNCHANGED <<LastSucceeded, mutex, fetchStats, asked, statsResponse,
                   succeeded, ok, status>>
    /\ UNCHANGED historyVars
    /\ UNCHANGED otherVars

\* The diagnostics origin's answer has been relayed to the client.
reverseProxy_Done(p) ==
    /\ pc[p] = "proxying"
    /\ Forget(p)

\* ===================================================================== proxy
\* One request at a time through the ServeMux and the reverse proxy.
Methods     == {"GET", "POST"}
Queries     == {"", "v=1"}
Bodies      == {"", "payload"}
RemoteAddrs == {"127.0.0.1:40000", "[::1]:40000", "10.0.0.7:40000"}
\* Value of the inbound X-Ambassador-Diag-IP header; "" when absent.
DiagIPHeaders == {"", "127.0.0.1"}
AllPaths    == {CheckAlivePath, CheckReadyPath} \cup OtherPaths

\* An inbound server request: its URL carries no scheme and no host.
InboundRequests ==
    [Method : Methods, Path : AllPaths, RawQuery : Queries, Body : Bodies,
     Scheme : {""}, Host : {""}, RemoteAddr : RemoteAddrs,
     DiagIP : DiagIPHeaders]

NoRequest ==
    [Method |-> "", Path |-> "", RawQuery |-> "", Body |-> "", Scheme |-> "",
     Host |-> "", RemoteAddr |-> "", DiagIP |-> ""]

NoResponse == [StatusCode |-> 0, Body |-> ""]

OriginResponses ==
    [StatusCode : {200, 500}, Body : {"diag overview", "diag error"}]

\* url.Parse("http://127.0.0.1:8004/") (line 65).
diagdOrigin == [Scheme |-> "http", Host |-> "127.0.0.1:8004", Path |-> "/"]

\* acp.HostPortIsLocal: the host part of the address is a loopback IP.
HostPortIsLocal(hostport) == hostport \in {"127.0.0.1:40000", "[::1]:40000"}

\* The Director (lines 72-80), applied to the proxy's copy of the inbound
\* request, headers included.
Director_JoinsOriginPath(r) ==
    [r EXCEPT !.Scheme = diagdOrigin.Scheme,
              !.Host = diagdOrigin.Host,
              !.Path = diagdOrigin.Path,
              !.DiagIP = IF HostPortIsLocal(r.RemoteAddr)
                           THEN "127.0.0.1" ELSE @]

Director(r) ==
    [r EXCEPT !.Scheme = diagdOrigin.Scheme,
              !.Host = diagdOrigin.Host,
              !.DiagIP = IF HostPortIsLocal(r.RemoteAddr)
                           THEN "127.0.0.1" ELSE @]

InitProxy ==
    /\ ppc = "idle"
    /\ req = NoRequest
    /\ outreq = NoRequest
    /\ originResp = NoResponse
    /\ clientResp = NoResponse

\* A request arrives and the ServeMux picks its handler (lines 54-60, 85).
ServeMux_Dispatch ==
    /\ ppc = "idle"
    /\ \E r \in InboundRequests :
         /\ req' = r
         /\ ppc' = IF ServeMux(r.Path) = "reverseProxy" THEN "director"
                                                        ELSE "health"
    /\ outreq' = NoRequest
    /\ originResp' = NoResponse
    /\ clientResp' = NoResponse
    /\ UNCHANGED <<watcherVars, historyVars, lifecycleVars>>

\* reverseProxy.ServeHTTP runs the Director on its copy of the request and
\* sends the result to the diagnostics origin.
reverseProxy_Forward ==
    /\ ppc = "director"
    /\ outreq' = Director(req)
    /\ ppc' = "forwarded"
    /\ UNCHANGED <<req, originResp, clientResp>>
    /\ UNCHANGED <<watcherVars, historyVars, lifecycleVars>>

\* The diagnostics origin answers.
diagd_Respond ==
    /\ ppc = "forwarded"
    /\ originResp' \in OriginResponses
    /\ ppc' = "answered"
    /\ UNCHANGED <<req, outreq, clientResp>>
    /\ UNCHANGED <<watcherVars, historyVars, lifecycleVars>>

\* reverseProxy.ServeHTTP copies the origin's response to the client.
reverseProxy_Relay ==
    /\ ppc = "answered"
    /\ clientResp' = originResp
    /\ ppc' = "delivered"
    /\ UNCHANGED <<req, outreq, originResp>>
    /\ UNCHANGED <<watcherVars, historyVars, lifecycleVars>>

\* The exchange is over (a health path is answered by its handler, which
\* forwards nothing); the front door takes the next request.
FrontDoor_Next ==
    /\ ppc \in {"delivered", "health"}
    /\ ppc' = "idle"
    /\ UNCHANGED <<req, outreq, originResp, clientResp>>
    /\ UNCHANGED <<watcherVars, historyVars, lifecycleVars>>

Forwarded == ppc \in {"forwarded", "answered", "delivered"}

\* ================================================================= lifecycle
\* context.WithTimeout(context.Background(), 10*time.Second) (line 120).
ShutdownTimeout == 10
\* context.WithTimeout(ctx, time.Second*2) in defaultFetcher (envoy.go line 64).
ProbeTimeout == 2
\* Requests that may be in flight, and how long (seconds) a handler may take:
\* one duration below the shutdown bound, one above it.
MaxReqs == 2
ShortDelay == 3
LongDelay == 12

Reqs == 1..MaxReqs
Delays == {ShortDelay, LongDelay}

Running == proc = "running"

SomeInFlight == \E r \in Reqs : rstate[r] = "inflight"

InitLifecycle ==
    /\ lc = "start"
    /\ srv = "none"
    /\ proc = "running"
    /\ ctxDone = FALSE
    /\ listener = "none"
    /\ rstate = [r \in Reqs |-> "idle"]
    /\ remaining = [r \in Reqs |-> 0]
    /\ atShutdown = [r \in Reqs |-> -1]
    /\ elapsed = 0
    /\ rkind = [r \in Reqs |-> "none"]

\* net.Listen("tcp4", ":8877") succeeds (line 97).
Listen_Ok ==
    /\ Running /\ lc = "start"
    /\ listener' = "open"
    /\ lc' = "listening"
    /\ UNCHANGED <<srv, proc, ctxDone, rstate, remaining, atShutdown, elapsed>>
    /\ UNCHANGED rkind
    /\ UNCHANGED <<watcherVars, historyVars, proxyVars>>

\* net.Listen fails: panic (lines 99-104).
Listen_Fail_LogsAndContinues ==
    /\ Running /\ lc = "start"
    /\ listener' = "failed"
    /\ lc' = "listening"
    /\ UNCHANGED <<srv, proc, ctxDone, rstate, remaining, atShutdown, elapsed>>
    /\ UNCHANGED rkind
    /\ UNCHANGED <<watcherVars, historyVars, proxyVars>>

Listen_Fail ==
    /\ Running /\ lc = "start"
    /\ listener' = "failed"
    /\ lc' = "bind_panic"
    /\ proc' = "panicked"
    /\ UNCHANGED <<srv, ctxDone, rstate, remaining, atShutdown, elapsed>>
    /\ UNCHANGED rkind
    /\ UNCHANGED <<watcherVars, historyVars, proxyVars>>

\* go func() { log.Fatal(s.Serve(listener)) }() (lines 113-115); the
\* controller then blocks on <-ctx.Done() (line 118).
Serve_Spawn ==
    /\ Running /\ lc = "listening"
    /\ srv' = "serving"
    /\ lc' = "waiting"
    /\ UNCHANGED <<proc, ctxDone, listener, rstate, remaining, atShutdown, elapsed>>
    /\ UNCHANGED rkind
    /\ UNCHANGED <<watcherVars, historyVars, proxyVars>>

\* The shutdown signal: whoever owns ctx cancels it, at any time.
Ctx_Cancel ==
    /\ Running /\ ~ctxDone
    /\ ctxDone' = TRUE
    /\ UNCHANGED <<lc, srv, proc, listener, rstate, remaining, atShutdown, elapsed>>
    /\ UNCHANGED rkind
    /\ UNCHANGED <<watcherVars, historyVars, proxyVars>>

\* <-ctx.Done() returns; the 10 s context is made and s.Shutdown(tctx) is
\* called (lines 118-123).  Shutdown closes the listener at once and then
\* waits for the connections to become idle.
Shutdown_Call ==
    /\ Running /\ lc = "waiting" /\ ctxDone
    /\ lc' = "shutdown"
    /\ listener' = "closed"
    /\ elapsed' = 0
    /\ atShutdown' = [r \in Reqs |->
                        IF rstate[r] = "inflight" THEN remaining[r] ELSE -1]
    /\ UNCHANGED <<srv, proc, ctxDone, rstate, remaining>>
    /\ UNCHANGED rkind
    /\ UNCHANGED <<watcherVars, historyVars, proxyVars>>

\* Shutdown returns nil once no request is in flight; healthCheckHandler
\* returns (lines 123-128).
Shutdown_ReturnsNil ==
    /\ Running /\ lc = "shutdown"
    /\ ~SomeInFlight
    /\ lc' = "returned"
    /\ UNCHANGED <<srv, proc, ctxDone, listener, rstate, remaining, atShutdown,
                   elapsed>>
    /\ UNCHANGED rkind
    /\ UNCHANGED <<watcherVars, historyVars, proxyVars>>

\* tctx expires with a request still in flight: Shutdown returns the
\* context's error and the controller panics (lines 125-127).
Shutdown_DeadlineExceeded ==
    /\ Running /\ lc = "shutdown"
    /\ SomeInFlight
    /\ elapsed = ShutdownTimeout
    /\ lc' = "shutdown_panic"
    /\ proc' = "panicked"
    /\ UNCHANGED <<srv, ctxDone, listener, rstate, remaining, atShutdown, elapsed>>
    /\ UNCHANGED rkind
    /\ UNCHANGED <<watcherVars, historyVars, proxyVars>>

\* s.Serve(listener) returns http.ErrServerClosed as soon as Shutdown has
\* been called (line 114).
Serve_Returns ==
    /\ Running /\ srv = "serving"
    /\ listener = "closed"
    /\ srv' = "returned"
    /\ UNCHANGED <<lc, proc, ctxDone, listener, rstate, remaining, atShutdown,
                   elapsed>>
    /\ UNCHANGED rkind
    /\ UNCHANGED <<watcherVars, historyVars, proxyVars>>

\* log.Fatal(...) on Serve's return value: the error is logged and the
\* process exits with os.Exit(1) (line 114).
Serve_LogFatal ==
    /\ Running /\ srv = "returned"
    /\ srv' = "fatal"
    /\ proc' = "exited"
    /\ UNCHANGED <<lc, ctxDone, listener, rstate, remaining, atShutdown, elapsed>>
    /\ UNCHANGED rkind
    /\ UNCHANGED <<watcherVars, historyVars, proxyVars>>

\* Seconds a handler may need: a health handler waits for the fetcher, which
\* the default fetcher bounds by ProbeTimeout; a proxied request waits for the
\* diagnostics origin, which may be slow.
HandlerTimes(k) == IF k = "health" THEN 0..ProbeTimeout ELSE Delays

\* The server accepts a request while its listener is open; its handler will
\* need d seconds.
Request_Accept(r) ==
    /\ Running /\ srv = "serving" /\ listener = "open"
    /\ rstate[r] = "idle"
    /\ \E k \in {"health", "diag"} :
         /\ rkind' = [rkind EXCEPT ![r] = k]
         /\ \E d \in HandlerTimes(k) :
              remaining' = [remaining EXCEPT ![r] = d]
    /\ rstate' = [rstate EXCEPT ![r] = "inflight"]
    /\ UNCHANGED <<lc, srv, proc, ctxDone, listener, atShutdown, elapsed>>
    /\ UNCHANGED <<watcherVars, historyVars, proxyVars>>

\* The handler finishes and the response is delivered.
Request_Complete(r) ==
    /\ Running
    /\ rstate[r] = "inflight" /\ remaining[r] = 0
    /\ rstate' = [rstate EXCEPT ![r] = "done"]
    /\ UNCHANGED <<lc, srv, proc, ctxDone, listener, remaining, atShutdown, elapsed>>
    /\ UNCHANGED rkind
    /\ UNCHANGED <<watcherVars, historyVars, proxyVars>>

\* One second passes.  A handler that is due finishes first, the controller
\* reacts to the signal first, and the shutdown context expires on time.
Tick ==
    /\ Running /\ SomeInFlight
    /\ \A r \in Reqs : rstate[r] = "inflight" => remaining[r] > 0
    /\ ~(lc = "waiting" /\ ctxDone)
    /\ lc = "shutdown" => elapsed < ShutdownTimeout
    /\ remaining' = [r \in Reqs |->
                       IF rstate[r] = "inflight" THEN remaining[r] - 1
                                                 ELSE remaining[r]]
    /\ elapsed' = IF lc = "shutdown" THEN elapsed + 1 ELSE elapsed
    /\ UNCHANGED <<lc, srv, proc, ctxDone, listener, rstate, atShutdown>>
    /\ UNCHANGED rkind
    /\ UNCHANGED <<watcherVars, historyVars, proxyVars>>

\* ============================================================ specifications
\* SetFetchStats (lines 105-107) has installed one of the fetchers.
InitFetcher == fetchStats \in Fetchers

Init == InitWatcher /\ InitFetcher /\ InitProxy /\ InitLifecycle

\* Goroutines calling the watcher directly.
Next ==
    \/ \E p \in Procs : Call_FetchEnvoyStats(p)
    \/ \E p \in Procs : Call_IsAlive(p)
    \/ \E p \in Procs : Call_IsReady(p)
    \/ \E p \in Procs : FetchEnvoyStats_FetchReturns(p)
    \/ \E p \in Procs : FetchEnvoyStats_Lock(p)
    \/ \E p \in Procs : FetchEnvoyStats_Store(p)
    \/ \E p \in Procs : FetchEnvoyStats_Unlock(p)
    \/ \E p \in Procs : FetchEnvoyStats_Return(p)
    \/ \E p \in Procs : IsAlive_Lock(p)
    \/ \E p \in Procs : IsAlive_Read(p)
    \/ \E p \in Procs : IsAlive_Unlock(p)
    \/ \E p \in Procs : IsAlive_ReturnThenIsReady(p)
    \/ \E p \in Procs : Query_Return(p)

Spec == Init /\ [][Next]_vars

\* Goroutines of the HTTP server, one per request being served.
FrontDoorNext ==
    \/ \E p \in Procs : handleCheckAlive_Start(p)
    \/ \E p \in Procs : handleCheckReady_Start(p)
    \/ \E p \in Procs : reverseProxy_Start(p)
    \/ \E p \in Procs : FetchEnvoyStats_FetchReturns(p)
    \/ \E p \in Procs : FetchEnvoyStats_Lock(p)
    \/ \E p \in Procs : FetchEnvoyStats_Store(p)
    \/ \E p \in Procs : FetchEnvoyStats_Unlock(p)
    \/ \E p \in Procs : FetchEnvoyStats_Return(p)
    \/ \E p \in Procs : IsAlive_Lock(p)
    \/ \E p \in Procs : IsAlive_Read(p)
    \/ \E p \in Procs : IsAlive_Unlock(p)
    \/ \E p \in Procs : handleCheckAlive_Respond(p)
    \/ \E p \in Procs : handleCheckReady_Respond(p)
    \/ \E p \in Procs : Handler_Return(p)
    \/ \E p \in Procs : reverseProxy_Done(p)

FrontDoorSpec == Init /\ [][FrontDoorNext]_vars

ProxyNext ==
    \/ ServeMux_Dispatch
    \/ reverseProxy_Forward
    \/ diagd_Respond
    \/ reverseProxy_Relay
    \/ FrontDoor_Next

ProxySpec == Init /\ [][ProxyNext]_vars

LifecycleNext ==
    \/ Listen_Ok
    \/ Listen_Fail
    \/ Serve_Spawn
    \/ Ctx_Cancel
    \/ Shutdown_Call
    \/ Shutdown_ReturnsNil
    \/ Shutdown_DeadlineExceeded
    \/ Serve_Returns
    \/ Serve_LogFatal
    \/ \E r \in Reqs : Request_Accept(r)
    \/ \E r \in Reqs : Request_Complete(r)
    \/ Tick

LifecycleSpec == Init /\ [][LifecycleNext]_vars

\* The watcher as healthCheckHandler constructs it: NewEnvoyWatcher installs
\* the default fetcher.
ShutdownInit ==
    /\ InitWatcher /\ fetchStats = DefaultFetcher
    /\ InitProxy /\ InitLifecycle

\* Health requests being served, with the default fetcher, around the moment
\* ctx is cancelled.
ShutdownNext ==
    \/ \E p \in Procs : handleCheckAlive_Start(p)
    \/ \E p \in Procs : handleCheckReady_Start(p)
    \/ \E p \in Procs : FetchEnvoyStats_FetchReturns(p)
    \/ \E p \in Procs : FetchEnvoyStats_Lock(p)
    \/ \E p \in Procs : FetchEnvoyStats_Store(p)
    \/ \E p \in Procs : FetchEnvoyStats_Unlock(p)
    \/ \E p \in Procs : FetchEnvoyStats_Return(p)
    \/ \E p \in Procs : IsAlive_Lock(p)
    \/ \E p \in Procs : IsAlive_Read(p)
    \/ \E p \in Procs : IsAlive_Unlock(p)
    \/ \E p \in Procs : handleCheckAlive_Respond(p)
    \/ \E p \in Procs : handleCheckReady_Respond(p)
    \/ \E p \in Procs : Handler_Return(p)
    \/ Ctx_Cancel

ShutdownSpec == ShutdownInit /\ [][ShutdownNext]_vars

\* ==================================================================== claims
ReadPcs == {"unlock_r", "ret_r", "responded"}

\* C1 (Spec).  A direct caller runs FetchEnvoyStats and then IsAlive and
\* IsReady.  Whenever no other call has assigned LastSucceeded since the
\* caller's own assignment, each of the two queries returns true exactly
\* when the fetcher gave the caller no error and status 200.
C1_QueriesFollowOwnProbe ==
    \A p \in Procs :
        (pc[p] = "unlock_r" /\ op[p] = "probe" /\ lastWriter = p)
            => (ok[p] <=> (statsResponse[p].err = FALSE
                           /\ statsResponse[p].StatusCode = 200))

\* C1 witness: IsReady, the second query after the caller's own probe, has
\* just returned false for a 204 answer that replaced a stored true.
C1_Witness ==
    \E p \in Procs :
        /\ pc[p] = "unlock_r" /\ op[p] = "probe" /\ asked[p] = 1
        /\ lastWriter = p
        /\ statsResponse[p] = OkResult(204)
        /\ prevValue = TRUE
        /\ ok[p] = FALSE

\* C2 (Spec).  Until some FetchEnvoyStats has assigned LastSucceeded, the
\* field is false and every value IsAlive or IsReady has handed back is false.
C2_FailClosed ==
    ~committed =>
        /\ LastSucceeded = FALSE
        /\ \A p \in Procs : pc[p] \in ReadPcs => ok[p] = FALSE

\* C2 witness: one goroutine's probe is in flight and has not assigned yet
\* while another has just been answered by IsReady.
C2_Witness ==
    /\ ~committed
    /\ \E p, q \in Procs :
         /\ p # q
         /\ pc[p] = "lock_w" /\ statsResponse[p] = OkResult(200)
         /\ pc[q] = "ret_r" /\ op[q] = "IsReady"

\* C3 as stated (Spec).  LastSucceeded equals the outcome of the
\* FetchEnvoyStats call that completed (returned) most recently, false before
\* any has.  States in which a call has assigned but not yet returned are left
\* out, so that the call completing last is never in doubt.
C3_Original ==
    (\A p \in Procs : pc[p] \notin {"unlock_w", "ret_w"})
        => LastSucceeded = lastReturned

\* C3 amended (Spec).  LastSucceeded equals the value assigned by the most
\* recent assignment under the mutex (false before any assignment).
C3_LastStoreWins == LastSucceeded = lastCommit

\* C3 witness: every call has returned, the call that returned last had the
\* other outcome, and the field holds the value stored last.
C3_Witness ==
    /\ NoProbeInFlight /\ committed
    /\ lastReturned # lastCommit
    /\ LastSucceeded = lastCommit

\* C4 (Spec).  When every call of a group of overlapping FetchEnvoyStats
\* calls has returned, LastSucceeded is the outcome of one of the group's
\* calls.
C4_OneOfTheOutcomes ==
    (NoProbeInFlight /\ batch # {}) => LastSucceeded \in batch

\* C4 witness: a group with both outcomes has returned and left false where
\* true stood before the group began.
C4_Witness ==
    /\ NoProbeInFlight
    /\ batch = {TRUE, FALSE}
    /\ batchStart = TRUE
    /\ LastSucceeded = FALSE

\* C5 (FrontDoorSpec).  With a fetcher that always answers 200 every
\* check_alive response is 200; with one that always errors every
\* check_alive response is 503.
C5_CheckAliveFollowsFetcher ==
    \A p \in Procs :
        (pc[p] = "responded" /\ op[p] = "check_alive") =>
            /\ fetchStats = "always200" => status[p] = 200
            /\ fetchStats = "alwaysError" => status[p] = 503

\* C5 witness: the first check_alive on a fresh watcher is answered 200 while
\* another check_alive is still fetching.
C5_Witness ==
    /\ fetchStats = "always200"
    /\ \E p, q \in Procs :
         /\ p # q
         /\ pc[p] = "responded" /\ op[p] = "check_alive" /\ status[p] = 200
         /\ lastWriter = p /\ prevValue = FALSE
         /\ pc[q] = "fetching" /\ op[q] = "check_alive"

\* C6 (FrontDoorSpec).  IsReady yields what IsAlive yields in the same state;
\* the value check_ready reads is the stored one; check_ready turns it into
\* the status check_alive would; and under a constant fetcher check_ready
\* answers what check_alive answers (200, respectively 503).
C6_ReadyEqualsAlive ==
    /\ EnvoyWatcher_IsReady = EnvoyWatcher_IsAlive
    /\ \A p \in Procs :
         /\ (pc[p] = "unlock_r" /\ op[p] = "check_ready")
                => ok[p] = EnvoyWatcher_IsAlive
         /\ (pc[p] = "responded" /\ op[p] = "check_ready") =>
                /\ status[p] = handleCheckAlive_Status(ok[p])
                /\ fetchStats = "always200" => status[p] = 200
                /\ fetchStats = "alwaysError" => status[p] = 503

\* C6 witness: under one fetcher a check_ready and a check_alive have both
\* been answered 503.
C6_Witness ==
    /\ fetchStats = "alwaysError"
    /\ \E p, q \in Procs :
         /\ pc[p] = "responded" /\ op[p] = "check_ready" /\ status[p] = 503
         /\ pc[q] = "responded" /\ op[q] = "check_alive" /\ status[q] = 503

\* C7 as stated (ProxySpec).  The request the diagnostics origin receives
\* carries X-Ambassador-Diag-IP exactly when the inbound remote address is
\* loopback.
C7_MarkerIffLoopback ==
    Forwarded => ((outreq.DiagIP # "") <=> HostPortIsLocal(req.RemoteAddr))

\* C8 (ProxySpec).  A request on a path other than the two health paths is
\* forwarded with its method, path, query and body, with the scheme and host
\* of the diagnostics origin, and the client gets the origin's body.
C8_ForwardedVerbatim ==
    /\ (ppc # "idle" /\ ServeMux(req.Path) = "reverseProxy")
           => ppc \in {"director", "forwarded", "answered", "delivered"}
    /\ Forwarded =>
           /\ outreq.Method = req.Method
           /\ outreq.Path = req.Path
           /\ outreq.RawQuery = req.RawQuery
           /\ outreq.Body = req.Body
           /\ outreq.Scheme = "http"
           /\ outreq.Host = "127.0.0.1:8004"
    /\ ppc = "delivered" => clientResp.Body = originResp.Body

\* C8 witness: a POST with a query and a body went to the origin on its own
\* path and the origin's error page came back to the client.
C8_Witness ==
    /\ ppc = "delivered"
    /\ req.Method = "POST" /\ req.Path = "/ambassador/v0/diag/"
    /\ req.RawQuery = "v=1" /\ req.Body = "payload"
    /\ outreq.Path = "/ambassador/v0/diag/" /\ outreq.Host # req.Host
    /\ clientResp = [StatusCode |-> 500, Body |-> "diag error"]

\* C9 as stated (LifecycleSpec).  Once the server has stopped or the
\* process has ended, every request that was in flight when Shutdown was
\* called with less than the shutdown bound left to run has completed.
C9_GracefulShutdown ==
    (lc = "returned" \/ proc # "running") =>
        \A r \in Reqs :
            (atShutdown[r] >= 0 /\ atShutdown[r] < ShutdownTimeout)
                => rstate[r] = "done"

\* C10 as stated (LifecycleSpec).  If a request in flight at Shutdown needs
\* more than the shutdown bound, the controller leaves the shutdown wait only
\* by panicking with Shutdown's error.
C10_LeavesWaitByShutdownError ==
    \A r \in Reqs :
        (atShutdown[r] > ShutdownTimeout /\ (lc # "shutdown" \/ proc # "running"))
            => lc = "shutdown_panic"

\* C11: every request accepted on /ambassador/v0/check_alive or
\* /ambassador/v0/check_ready receives a response.  A health handler is
\* done within ProbeTimeout, well inside the shutdown bound, so the process
\* must never end while an accepted health request is still unanswered.
C11_HealthRequestAnswered ==
    \A r \in Reqs :
        (rkind[r] = "health" /\ rstate[r] = "inflight") => proc = "running"

HealthOps == {"check_alive", "check_ready"}

\* C12: there is no caching or coalescing of probes.  Every health request
\* being handled has invoked the fetcher exactly once, on its own behalf,
\* and by the time its handler reads the watcher that one probe has stored
\* its outcome; so N health requests cause N fetcher invocations.
C12_OneFetchPerRequest ==
    \A p \in Procs :
        op[p] \in HealthOps =>
            /\ fetches[p] = 1
            /\ pc[p] \in {"lock_r", "read", "unlock_r", "ret_r", "responded"}
                   => stores[p] = 1

\* Two requests answered concurrently, one fetch each.
C12_Witness ==
    \E p, q \in Procs :
        /\ p # q
        /\ pc[p] = "responded" /\ op[p] = "check_alive" /\ fetches[p] = 1
        /\ pc[q] = "responded" /\ op[q] = "check_ready" /\ fetches[q] = 1

\* C13 as stated (Spec).  Of two overlapping FetchEnvoyStats calls the one
\* whose fetch returns last decides: once every call has returned,
\* LastSucceeded is the outcome of the fetch that returned most recently.
C13_Original ==
    (NoProbeInFlight /\ committed) => LastSucceeded = lastFetched

\* C13 amended (Spec).  Of two overlapping calls the one that assigns
\* LastSucceeded last (line 129, under the mutex) decides: once every call
\* has returned, LastSucceeded is the outcome of the call that assigned last.
C13_LastAssignmentDecides ==
    \A q \in Procs :
        (NoProbeInFlight /\ lastWriter = q) => LastSucceeded = succeeded[q]

\* C13 witness: p and q overlapped with different outcomes, p's fetch
\* returned last, q assigned last, and q's outcome stands.
C13_Witness ==
    \E p, q \in Procs :
        /\ p # q /\ NoProbeInFlight
        /\ stores[p] = 1 /\ stores[q] = 1
        /\ succeeded[p] # succeeded[q]
        /\ lastFetched = succeeded[p]
        /\ lastWriter = q
        /\ LastSucceeded = succeeded[q]

\* C14: a request on any path other than the two health paths bypasses the
\* watcher.  Its goroutine never invokes the fetcher, never assigns
\* LastSucceeded and never takes the mutex; and no step in which such a
\* request starts or finishes changes LastSucceeded or the mutex, whatever
\* the health requests around it are doing.
C14_OtherPathsBypassWatcher ==
    /\ [](\A p \in Procs :
            op[p] = "other" =>
                /\ pc[p] = "proxying"
                /\ fetches[p] = 0 /\ stores[p] = 0
                /\ mutex # p /\ lastWriter # p)
    /\ [][\A p \in Procs :
            (op[p] = "other" \/ op'[p] = "other") /\ pc'[p] # pc[p]
                => UNCHANGED <<LastSucceeded, mutex>>]_vars

\* C14 witness: a proxied request in progress while a health request holds
\* the mutex about to overwrite a stored true.
C14_Witness ==
    \E p, q \in Procs :
        /\ op[p] = "other" /\ pc[p] = "proxying"
        /\ pc[q] = "write" /\ op[q] \in HealthOps
        /\ LastSucceeded /\ ~succeeded[q]

\* C15: a FetchEnvoyStats call leaves LastSucceeded alone until its fetcher
\* has returned.  The steps by which a call starts and by which its fetch
\* returns do not change LastSucceeded; LastSucceeded changes only in the
\* assignment step of a call whose fetch has returned; and a call has made
\* no assignment before that step and exactly one after it.
C15_NoWriteBeforeOutcome ==
    /\ [](\A p \in Procs :
            /\ pc[p] \in {"fetching", "lock_w", "write"} => stores[p] = 0
            /\ pc[p] \in {"unlock_w", "ret_w"} => stores[p] = 1
            /\ stores[p] <= 1)
    /\ [][/\ \A p \in Procs :
              (pc[p] \in {"idle", "fetching"} /\ pc'[p] \in {"fetching", "lock_w"}
                 /\ pc'[p] # pc[p]) => LastSucceeded' = LastSucceeded
          /\ LastSucceeded' # LastSucceeded =>
                \E p \in Procs : /\ pc[p] = "write" /\ pc'[p] = "unlock_w"
                                  /\ LastSucceeded' = succeeded[p]]_vars

\* C15 witness: while p's fetch is still running, a concurrent IsAlive has
\* read the true committed before p started.
C15_Witness ==
    \E p, q \in Procs :
        /\ pc[p] = "fetching"
        /\ op[q] = "IsAlive" /\ pc[q] = "unlock_r" /\ ok[q]
        /\ LastSucceeded /\ lastWriter = 0

\* Positions of a goroutine; none of them is an abort.
Positions ==
    {"idle", "fetching", "lock_w", "write", "unlock_w", "ret_w", "lock_r",
     "read", "unlock_r", "ret_r", "responded", "proxying"}

\* Status codes a fetcher's result may carry.
AnyStatusCodes == {100, 200, 201, 204, 301, 404, 500, 503}

\* C16: FetchEnvoyStats never surfaces a failure.  Whatever the fetcher
\* returned, the call goes on to its assignment and its return, at no
\* position of an abort; succeeded is true only for a result without error
\* and with status 200, for any status code; that is the value it records;
\* and the caller has nothing but the recorded value to go by, so all a
\* health request shows of a failed probe is the 503 written when it reads
\* false.
C16_FailureOnlyAsFalse ==
    /\ ~Succeeded(ErrResult)
    /\ \A c \in AnyStatusCodes : Succeeded(OkResult(c)) <=> (c = 200)
    /\ \A p \in Procs :
          /\ pc[p] \in Positions
          /\ pc[p] \in {"lock_w", "write", "unlock_w", "ret_w"} =>
                succeeded[p] = (statsResponse[p] = OkResult(200))
          /\ pc[p] = "unlock_w" => LastSucceeded = succeeded[p]
          /\ pc[p] \in {"ret_w", "lock_r", "read", "unlock_r", "ret_r",
                         "responded"} /\ op[p] \in HealthOps => stores[p] = 1
          /\ pc[p] = "responded" =>
                /\ status[p] \in {200, 503}
                /\ (status[p] = 503) <=> ~ok[p]

\* C16 witness: one request's fetch returned an error, another's a 204; both
\* calls returned and both requests were answered 503.
C16_Witness ==
    \E p, q \in Procs :
        /\ pc[p] = "responded" /\ statsResponse[p] = ErrResult
        /\ pc[q] = "responded" /\ statsResponse[q] = OkResult(204)
        /\ status[p] = 503 /\ status[q] = 503

\* Positions at which a goroutine is between Lock and the deferred Unlock.
HolderPcs == {"write", "unlock_w", "read", "unlock_r"}

\* C17: LastSucceeded is read (line 139) and assigned (line 129) only by the
\* goroutine holding the mutex; at most one goroutine is between its Lock
\* and its Unlock; a goroutine outside those positions, in particular one
\* whose fetcher is running or whose call has returned, does not hold it;
\* and LastSucceeded changes only in the holder's assignment step.
C17_MutualExclusion ==
    /\ [](/\ \A p \in Procs : (pc[p] \in HolderPcs) <=> (mutex = p)
          /\ Cardinality({p \in Procs : pc[p] \in HolderPcs}) <= 1
          /\ mutex \in Procs \cup {0})
    /\ [][/\ LastSucceeded' # LastSucceeded =>
                (mutex # 0 /\ mutex' = mutex /\ pc[mutex] = "write")
          /\ \A p \in Procs :
                ok'[p] # ok[p] /\ pc'[p] = "unlock_r" =>
                    (mutex = p /\ mutex' = p /\ pc[p] = "read")]_vars

\* C17 witness: IsReady holds the mutex, having read, while another
\* goroutine's fetcher is still running.
C17_Witness ==
    \E p, q \in Procs :
        /\ pc[q] = "fetching" /\ mutex # q
        /\ op[p] = "IsReady" /\ pc[p] = "unlock_r" /\ mutex = p

\* C18: a health handler never answers from a result older than its own
\* probe.  When the handler has just read (it still holds the mutex), its own
\* call has assigned, the value read is the most recently assigned one, and
\* that is its own outcome unless another call assigned after it; the status
\* it then writes follows the value read.
C18_NotOlderThanOwnProbe ==
    \A p \in Procs :
        op[p] \in HealthOps =>
            /\ pc[p] = "unlock_r" =>
                  /\ stores[p] = 1
                  /\ ok[p] = lastCommit
                  /\ lastWriter = p => ok[p] = succeeded[p]
                  /\ ok[p] # succeeded[p] => lastWriter # p
            /\ pc[p] = "responded" =>
                  status[p] = IF ok[p] THEN 200 ELSE 503

\* C18 witness: p's own probe succeeded, q's failing probe assigned between
\* p's assignment and p's read, and p has read false.
C18_Witness ==
    \E p, q \in Procs :
        /\ p # q
        /\ op[p] = "check_alive" /\ pc[p] = "unlock_r"
        /\ succeeded[p] /\ ~ok[p]
        /\ lastWriter = q /\ op[q] = "check_ready" /\ ~succeeded[q]

\* C19 as stated (ShutdownSpec), for the requests it is surest about: a
\* health request whose fetch returned after ctx was cancelled, so that its
\* own probe failed, is answered 503.
C19_Original ==
    \A p \in Procs :
        (fetchedAfterCancel[p] /\ pc[p] = "responded") => status[p] = 503

\* C19 amended (ShutdownSpec).  A fetch that returns after ctx was cancelled
\* returns an error and its call assigns false.  LastSucceeded is false
\* while the latest assignment is that of such a call; it is true after the
\* cancellation only by the assignment of a call whose fetch had returned
\* 200 before it.  A request whose fetch returned after the cancellation is
\* answered 200 only if such an assignment of true was made after the
\* cancellation.
C19_CancelledProbesFail ==
    /\ lateSuccess => ctxDone
    /\ \A p \in Procs :
          /\ fetchedAfterCancel[p] =>
                (ctxDone /\ statsResponse[p] = ErrResult /\ ~succeeded[p])
          /\ (fetchedAfterCancel[p] /\ pc[p] = "unlock_w") => ~LastSucceeded
          /\ (fetchedAfterCancel[p] /\ lastWriter = p) => ~LastSucceeded
          /\ (ctxDone /\ LastSucceeded /\ stores[p] = 1 /\ fetchedAfterCancel[p])
                => lateSuccess
          /\ (fetchedAfterCancel[p] /\ pc[p] = "responded" /\ status[p] = 200)
                => lateSuccess

\* C19 witness: ctx was cancelled while p's fetch was running; p's probe
\* failed and p was answered 503, although the fetch of q, returned just
\* before the cancellation, had found the proxy healthy.
C19_Witness ==
    \E p, q \in Procs :
        /\ ctxDone /\ ~lateSuccess
        /\ pc[p] = "responded" /\ fetchedAfterCancel[p] /\ status[p] = 503
        /\ pc[q] = "responded" /\ ~fetchedAfterCancel[q] /\ status[q] = 200

\* C20: a failed bind is fatal.  Once net.Listen has failed the controller
\* has panicked and the process is over: the serving goroutine was never
\* started, no request was accepted, and the controller takes no further
\* step, neither a second bind nor the wait for ctx nor a shutdown; whether
\* ctx has been cancelled plays no part.
C20_BindFailureIsFatal ==
    listener = "failed" =>
        /\ lc = "bind_panic" /\ proc = "panicked"
        /\ srv = "none"
        /\ \A r \in Reqs : rstate[r] = "idle" /\ rkind[r] = "none"
        /\ ~ENABLED (Listen_Ok \/ Listen_Fail \/ Serve_Spawn \/ Shutdown_Call)
        /\ ~ENABLED (\E r \in Reqs : Request_Accept(r))

\* C20 witness: the bind failed and the process is over, with ctx never
\* cancelled.
C20_Witness ==
    /\ listener = "failed" /\ proc = "panicked"
    /\ ~ctxDone

====
